---- MODULE Spec2Model ----
(***************************************************************************)
(* A model of res.solarpower._pv.simulatePVModule and of the helpers it    *)
(* calls (_sapm_celltemp, _SolarLibrary).                                  *)
(*                                                                         *)
(* One call of simulatePVModule is a sequence of stages, one action per    *)
(* commented block of the function.  The caller's arguments are chosen in  *)
(* Init; the caller then calls the function up to MaxRuns times with the   *)
(* same arguments and the same weather source object.                      *)
(*                                                                         *)
(* Numbers are fixed point integers:                                       *)
(*   angles, latitudes, longitudes   hundredths of a degree                *)
(*   elevations above sea level      metres                                *)
(*   irradiance                      W/m2                                  *)
(*   temperatures                    hundredths of a degree Celsius        *)
(*   factors of the Frank correction millionths                            *)
(*   power                           milliwatts                            *)
(*   output                          thousandths of the rated capacity     *)
(* Tables (pandas DataFrames) are functions [Times \X LocIdx -> value],    *)
(* columns in LocationSet order.  NaN is a value of its own that every     *)
(* arithmetic operator propagates and every comparison answers FALSE on.   *)
(***************************************************************************)
EXTENDS Integers, Sequences, FiniteSets, TLC

VARIABLES
    args,      \* the caller's arguments, the same for every run
    source,    \* the caller's weather source object (mapping or NCSource data)
    runs,      \* number of calls started so far
    pc,        \* stage of the current call
    err,       \* exception the current call ended with ("" if none)
    frame,     \* the local variables of simulatePVModule
    log,       \* calls made to collaborators during the current call
    history    \* the caller's view: its weather tables as they were when it
               \* made the current call, and the outcome of each finished call

vars == <<args, source, runs, pc, err, frame, log, history>>

\* ------------------------------------------------------------------ bounds

\* number of timestamps in the time index
NumTimes == 2
\* number of locations in the LocationSet
NumLocs == 2
\* number of times the caller runs the simulation with the same inputs
MaxRuns == 2
\* number of arguments that differ from the defaults of the signature
MaxDeviations == 2

Times == 1..NumTimes
LocIdx == 1..NumLocs

\* ------------------------------------------------------------ arithmetic

\* numpy's not-a-number, the content of an empty pd.DataFrame(index, columns)
NaN == -999999999

IsNaN(x) == x = NaN

Add(x, y) == IF IsNaN(x) \/ IsNaN(y) THEN NaN ELSE x + y
Sub(x, y) == IF IsNaN(x) \/ IsNaN(y) THEN NaN ELSE x - y
Mul(x, y) == IF IsNaN(x) \/ IsNaN(y) THEN NaN ELSE x * y
\* division rounding toward zero on the magnitudes (fixed point)
Quot(x, y) == IF x >= 0 THEN x \div y ELSE -((-x) \div y)
Div(x, y) == IF IsNaN(x) \/ IsNaN(y) THEN NaN ELSE Quot(x, y)
\* x > y of numpy: FALSE when either side is NaN
Gt(x, y) == ~IsNaN(x) /\ ~IsNaN(y) /\ x > y
Lt(x, y) == ~IsNaN(x) /\ ~IsNaN(y) /\ x < y

Abs(x) == IF x < 0 THEN -x ELSE x
Min(x, y) == IF x < y THEN x ELSE y
Max(x, y) == IF x > y THEN x ELSE y

\* np.round(x, d) for x in units of 1/step of the target grid: round to the
\* nearest multiple of step, a tie to the even multiple (round half to even).
RoundHalfEven(x, step) ==
    LET q == x \div step
        r == x % step
    IN  IF 2 * r < step THEN q * step
        ELSE IF 2 * r > step THEN (q + 1) * step
        ELSE IF q % 2 = 0 THEN q * step ELSE (q + 1) * step

\* e^-n in millionths, n a natural number
ExpNegInt(n) ==
    CASE n = 0 -> 1000000 [] n = 1 -> 367879 [] n = 2 -> 135335
      [] n = 3 -> 49787   [] n = 4 -> 18316  [] n = 5 -> 6738
      [] n = 6 -> 2479    [] n = 7 -> 912    [] n = 8 -> 335
      [] n = 9 -> 123     [] n = 10 -> 45    [] n = 11 -> 17
      [] n = 12 -> 6      [] n = 13 -> 2     [] n = 14 -> 1
      [] OTHER -> 0

\* np.exp(-y) in millionths, y >= 0 in thousandths: e^-n times the Taylor
\* series of e^-r to the fourth order.
ExpNeg(y) ==
    LET n  == y \div 1000
        r  == y % 1000
        t2 == (r * r) \div 2000
        t3 == (t2 * r) \div 3000
        t4 == (t3 * r) \div 4000
        f  == 1000 - r + t2 - t3 + t4
    IN  (ExpNegInt(n) * f) \div 1000

\* np.sin of an angle given in hundredths of a degree, in thousandths
\* (Bhaskara's approximation on whole degrees).
SinPos(d) == (4000 * d * (180 - d)) \div (40500 - d * (180 - d))
Sin1000(a) ==
    LET d == (Quot(a, 100)) % 360
    IN  IF d <= 180 THEN SinPos(d) ELSE -SinPos(d - 180)
Cos1000(a) == Sin1000(a + 9000)

\* --------------------------------------------------- the caller's arguments

\* The keyword arguments of simulatePVModule (and the make-up of locs and of
\* the weather source), each with the values the model draws it from; the
\* first value is the default of the signature.
Fields ==
    {"cellTempModel", "generationModel", "inverterModel", "tracking", "tilt",
     "elev", "module", "inverter", "rackingModel", "frankCorrection",
     "source", "dhi", "dni", "albedo", "totalSystemCapacity", "loss",
     "modulesPerString", "stringsPerInverter", "interpolation",
     "locs", "sky"}

\* number of locations the caller's locations are taken from
PoolSize == NumLocs + 1

Options(f) ==
    CASE f = "cellTempModel"   -> <<"sandia", "noct", "other">>
      [] f = "generationModel" -> <<"single-diode", "sapm", "other">>
      [] f = "inverterModel"   -> <<"sandia", "driesse", "other">>
      [] f = "tracking"        -> <<"fixed", "single-axis", "other">>
      [] f = "tilt"            -> <<"latitude", "half-latitude", "other",
                                    "number", "function", "sequence">>
      [] f = "elev"            -> <<"number", "none", "series">>
      [] f = "module"          -> <<"cec_id", "sandia_id", "mapping",
                                    "mapping_noEg">>
      [] f = "inverter"        -> <<"none", "mapping", "cec_id", "sandia_id",
                                    "unknown_id">>
      [] f = "rackingModel"    -> <<"open_rack_cell_glassback",
                                    "roof_mount_cell_glassback", "custom">>
      [] f = "frankCorrection" -> <<FALSE, TRUE>>
      [] f = "source"          -> <<"mapping", "ncsource">>
      [] f = "dhi"             -> <<"absent", "present", "negative">>
      [] f = "dni"             -> <<"present", "absent">>
      [] f = "albedo"          -> <<"absent", "present">>
      [] f = "totalSystemCapacity" -> <<"none", "number", "series">>
      [] f = "loss"            -> <<0, 10>>
      [] f = "modulesPerString"   -> <<1, 2>>
      [] f = "stringsPerInverter" -> <<1, 2>>
      [] f = "interpolation"   -> <<"bilinear", "near">>
      [] f = "locs"            -> [i \in 1..PoolSize |-> i]
      [] f = "sky"             -> <<"clear", "cloudy">>

\* every argument at its default
DefaultChoice == [f \in Fields |-> 1]

\* the choices that leave at most k arguments off their default
RECURSIVE Choices(_)
Choices(k) ==
    IF k = 0 THEN {DefaultChoice}
    ELSE LET C == Choices(k - 1)
         IN  C \cup UNION { UNION { {[c EXCEPT ![f] = i] : c \in C}
                                    : i \in 2..Len(Options(f)) }
                            : f \in Fields }

Arguments(c) == [f \in Fields |-> Options(f)[c[f]]]

\* ------------------------------------------------------------- locations

\* The locations the caller may pass: longitude and latitude in hundredths
\* of a degree, and the terrain elevation in metres a caller who passes
\* elev as a per-location series gives for it.
LocPool(p) ==
    CASE p = 1 -> [lon |-> 600, lat |-> 5004, elev |-> 240]
      [] p = 2 -> [lon |-> 600, lat |-> 5006, elev |-> 260]
      [] p = 3 -> [lon |-> 605, lat |-> 5005, elev |-> 250]
      [] p = 4 -> [lon |-> 615, lat |-> 5015, elev |-> 350]
      [] p = 5 -> [lon |-> 618, lat |-> 5018, elev |-> 380]
      [] OTHER -> [lon |-> 600 + 9 * p, lat |-> 5000 + 9 * p,
                   elev |-> 100 * p + 40]

\* LocationSet(locs): the caller's locations in order, without duplicates.
\* The caller passes NumLocs consecutive locations of the pool, from `first`.
LocationSet(first) ==
    [i \in LocIdx |-> LocPool(((first + i - 2) % PoolSize) + 1)]

\* ---------------------------------------------------------------- weather

\* The calendar month of timestamp t and the part of the day it falls in:
\* 1 high sun, 2 night, 0 low sun.
Month(t) == (((t - 1) * 5) % 12) + 1
Phase(t) == t % 3

\* The weather at a location and a time, as the source holds it.
WeatherAt(var, sky, t, l) ==
    LET p == (l.lat + l.lon) % 7
    IN  CASE var = "ghi" ->
               IF Phase(t) = 2 THEN 0
               ELSE IF Phase(t) = 0 THEN 150 + 10 * p
               ELSE IF sky = "clear" THEN 850 + 10 * p ELSE 300 + 10 * p
          [] var = "dni" ->
               IF Phase(t) = 2 THEN 0
               ELSE IF Phase(t) = 0 THEN 700
               ELSE IF sky = "clear" THEN 900 + 40 * (6 - p) ELSE 50
          [] var = "dhi" ->
               IF Phase(t) = 2 THEN 0
               ELSE IF Phase(t) = 0 THEN 60 + p
               ELSE IF sky = "clear" THEN 100 + p ELSE 280
          [] var = "windspeed" -> 1 + ((t + p) % 4)
          [] var = "pressure"  -> 101300 - 1200 * p
          [] var = "air_temp"  -> 500 + 300 * p + 400 * Phase(t)
          [] var = "albedo"    -> 250 + 10 * p

WeatherTable(var, sky, locs) ==
    [x \in Times \X LocIdx |-> WeatherAt(var, sky, x[1], locs[x[2]])]

\* A diffuse irradiance table with a cell below zero, as an interpolating or
\* bias-corrected source can hold.
NegativeDhiTable(sky, locs) ==
    [x \in Times \X LocIdx |->
        IF x[1] = 1 /\ x[2] = 1 THEN -5
        ELSE WeatherAt("dhi", sky, x[1], locs[x[2]])]

\* The variables the caller's source holds: the mapping's keys, or the keys
\* of NCSource.data.
SourceKeys(a) ==
    {"ghi", "windspeed", "pressure", "air_temp"}
      \cup (IF a.dhi = "absent" THEN {} ELSE {"dhi"})
      \cup (IF a.dni = "absent" THEN {} ELSE {"dni"})
      \cup (IF a.albedo = "absent" THEN {} ELSE {"albedo"})

\* The caller's source: its kind, the keys it holds and, per key, the table
\* of values at the caller's locations.
MakeSource(a) ==
    LET locs == LocationSet(a.locs)
    IN  [kind |-> a.source,
         keys |-> SourceKeys(a),
         data |-> [v \in {"ghi", "dhi", "dni", "windspeed", "pressure",
                          "air_temp", "albedo"} |->
                     IF v = "dhi" /\ a.dhi = "negative"
                     THEN NegativeDhiTable(a.sky, locs)
                     ELSE WeatherTable(v, a.sky, locs)]]

\* ------------------------------------------------------ parameter library

\* SolarLibrary.modules(group): the names of the module table of a group
\* (pvlib.pvsystem.retrieve_sam(group + "mod")).
SolarLibraryModules(group) ==
    IF group = "sandia" THEN {"sandia_id"} ELSE {"cec_id"}

\* SolarLibrary.inverters(group): the names of the inverter table of a group.
SolarLibraryInverters(group) ==
    IF group = "sandia" THEN {"sandia_id"} ELSE {"cec_id"}

\* The electrical parameters of a module that the function reads: currents
\* in hundredths of an Ampere, voltages in tenths of a Volt.
ModuleParameters(module) ==
    IF module = "sandia_id"
    THEN [Impo |-> 495, Vmpo |-> 404, I_mp_ref |-> 0, V_mp_ref |-> 0]
    ELSE [Impo |-> 0, Vmpo |-> 0, I_mp_ref |-> 598, V_mp_ref |-> 428]

\* -------------------------------------------------------- local variables

ZeroTable == [x \in Times \X LocIdx |-> 0]
ZeroSeries == [i \in LocIdx |-> 0]

\* The locals of simulatePVModule before the first statement. A table local
\* that is not bound yet, or was deleted, is the zero table; dhiNone and
\* dniNone say that dhi and dni are None.
Frame0 ==
    [sandiaCellTemp |-> FALSE, sandiaGenerationModel |-> FALSE,
     sandiaInverterModel |-> FALSE, singleAxis |-> FALSE,
     locs |-> <<>>,
     ghi |-> ZeroTable, ghiShared |-> FALSE,
     dhi |-> ZeroTable, dhiNone |-> TRUE,
     dni |-> ZeroTable, dniNone |-> TRUE,
     windspeed |-> ZeroTable, pressure |-> ZeroTable, air_temp |-> ZeroTable,
     albedo |-> ZeroTable,
     module |-> "", moduleCap |-> 0, moduleCapBound |-> FALSE,
     moduleEg |-> FALSE,
     inverter |-> "none",
     genericSystem |-> [modules_per_string |-> 0, strings_per_inverter |-> 0,
                        racking_model |-> ""],
     totalSystemCapacity |-> ZeroSeries, capacityNone |-> TRUE,
     azimuth |-> ZeroSeries, tilt |-> ZeroSeries, elev |-> ZeroSeries,
     checkedSolPosValues |-> <<>>,
     solpos |-> [apparent_zenith |-> ZeroTable, azimuth |-> ZeroTable,
                 apparent_elevation |-> ZeroTable],
     dni_extra |-> [t \in Times |-> 0],
     amAbs |-> ZeroTable, aoi |-> ZeroTable,
     poa |-> [poa_global |-> ZeroTable, poa_direct |-> ZeroTable,
              poa_diffuse |-> ZeroTable],
     cellTemp |-> ZeroTable,
     rawDCGeneration |-> [p_mp |-> ZeroTable, v_mp |-> ZeroTable],
     generation |-> ZeroTable,
     output |-> ZeroTable]

\* What the call has asked of its collaborators so far, and what it got.
Log0 ==
    [reads |-> 0,        \* weather reads: source.get(...) and source[...]
     loc2Index |-> 0,    \* calls of source.loc2Index
     get |-> <<>>,       \* the calls of source.get, in order
     spa |-> <<>>,       \* the calls of pvlib.solarposition.spa_python
     inverterCalls |-> 0,\* calls of snlinverter / adrinverter
     celltemp |-> <<>>,  \* the coefficients [a, b, deltaT] _sapm_celltemp used
     poa_global |-> ZeroTable, \* poa['poa_global'] of total_irrad
     p_mp |-> ZeroTable] \* the p_mp table filled from singlediode

Init ==
    /\ \E c \in Choices(MaxDeviations) : args = Arguments(c)
    /\ source = MakeSource(args)
    /\ runs = 0
    /\ pc = "idle"
    /\ err = ""
    /\ frame = Frame0
    /\ log = Log0
    /\ history = [before |-> source.data, calls |-> <<>>]

\* The caller calls simulatePVModule(locs, source, **args).
Call ==
    /\ pc = "idle"
    /\ runs < MaxRuns
    /\ runs' = runs + 1
    /\ pc' = "check"
    /\ err' = ""
    /\ frame' = Frame0
    /\ log' = Log0
    /\ history' = [history EXCEPT !.before = source.data]
    /\ UNCHANGED <<args, source>>

\* The call raises exception e.
Raise(e) ==
    /\ pc' = "raised"
    /\ err' = e

\* ### Check a few inputs so it doesn't need to be done repeatedly
CheckInputs ==
    /\ pc = "check"
    /\ IF args.cellTempModel \notin {"sandia", "noct"}
       THEN Raise("ValueError: cellTempModel parameter not understood")
            /\ UNCHANGED frame
       ELSE IF args.generationModel \notin {"sapm", "single-diode"}
       THEN Raise("ValueError: generationModel parameter not understood")
            /\ UNCHANGED frame
       ELSE IF args.inverterModel \notin {"sandia", "driesse"}
       THEN Raise("ValueError: generationModel parameter not understood")
            /\ UNCHANGED frame
       ELSE IF args.tracking \notin {"single-axis", "fixed"}
       THEN Raise("ValueError: tracking parameter not understood")
            /\ UNCHANGED frame
       ELSE /\ frame' = [frame EXCEPT
                   !.sandiaCellTemp = (args.cellTempModel = "sandia"),
                   !.sandiaGenerationModel = (args.generationModel = "sapm"),
                   !.sandiaInverterModel = (args.inverterModel = "sandia"),
                   !.singleAxis = (args.tracking = "single-axis")]
            /\ pc' = "weather"
            /\ err' = ""
    /\ UNCHANGED <<args, source, runs, log, history>>

\* source.get(var, locations, interpolation, forceDataFrame, _indicies): a
\* new table of the variable's values at the locations.
SourceGet(var) == source.data[var]

\* GetCall without the precomputed indices: the source snaps the locations
\* anew in every get
GetCallOwnSnapping(var, locs, idx) ==
    [var |-> var, locations |-> locs, interpolation |-> args.interpolation,
     indicies |-> 0]

\* One call of source.get as the source sees it.
GetCall(var, locs, idx) ==
    [var |-> var, locations |-> locs, interpolation |-> args.interpolation,
     indicies |-> idx]

\* The variables simulatePVModule extracts, in the order it extracts them.
ExtractionOrder == <<"ghi", "dhi", "dni", "windspeed", "pressure", "air_temp",
                     "albedo">>
Optional == {"dhi", "dni", "albedo"}

Extracted == SelectSeq(ExtractionOrder,
                       LAMBDA v : v \notin Optional \/ v \in source.keys)

\* albedo = 0.2 when the source has none (thousandths)
DefaultAlbedo == [x \in Times \X LocIdx |-> 200]

\* ### Normalize location, ### Collect weather data
CollectWeather ==
    /\ pc = "weather"
    /\ LET locs == LocationSet(args.locs)
           nc   == source.kind = "ncsource"
           \* idx = source.loc2Index(locs, asInt=False): the result of the
           \* n-th call of loc2Index is named by n
           idx  == log.loc2Index + 1
       IN  /\ frame' = [frame EXCEPT
                  !.locs = locs,
                  !.ghi = IF nc THEN SourceGet("ghi") ELSE source.data["ghi"],
                  \* the mapping's ghi is the caller's table itself
                  !.ghiShared = ~nc,
                  !.dhiNone = "dhi" \notin source.keys,
                  !.dhi = IF "dhi" \in source.keys
                          THEN (IF nc THEN SourceGet("dhi")
                                ELSE source.data["dhi"])
                          ELSE ZeroTable,
                  !.dniNone = "dni" \notin source.keys,
                  !.dni = IF "dni" \in source.keys
                          THEN (IF nc THEN SourceGet("dni")
                                ELSE source.data["dni"])
                          ELSE ZeroTable,
                  !.windspeed = IF nc THEN SourceGet("windspeed")
                                ELSE source.data["windspeed"],
                  !.pressure = IF nc THEN SourceGet("pressure")
                               ELSE source.data["pressure"],
                  !.air_temp = IF nc THEN SourceGet("air_temp")
                               ELSE source.data["air_temp"],
                  !.albedo = IF "albedo" \in source.keys
                             THEN (IF nc THEN SourceGet("albedo")
                                   ELSE source.data["albedo"])
                             ELSE DefaultAlbedo]
           /\ log' = [log EXCEPT
                  !.reads = Len(Extracted),
                  !.loc2Index = IF nc THEN idx ELSE @,
                  !.get = IF nc
                          THEN [k \in 1..Len(Extracted) |->
                                   GetCall(Extracted[k], locs, idx)]
                          ELSE @]
    /\ pc' = "identify"
    /\ UNCHANGED <<args, source, runs, err, history>>

\* ### Identify module and inverter, ### Construct Generic system
\* The exception the inverter lookup ends with, "" if it ends with none.
InverterLookupError(inverter, e) ==
    IF inverter \in {"none", "mapping"} THEN ""
    ELSE IF inverter \in SolarLibraryInverters("cec")
         \* try succeeded: the else clause raises; the message is built as
         \* str + the inverter's parameter Series, which itself may raise
         THEN e
    ELSE IF inverter \in SolarLibraryInverters("sandia") THEN ""
    ELSE "KeyError: inverter"

\* The exception the module lookup ends with, "" if it ends with none.
ModuleLookupError(module, sandiaGenerationModel) ==
    IF module \in {"mapping", "mapping_noEg"} THEN ""
    ELSE IF sandiaGenerationModel
         THEN (IF module \in SolarLibraryModules("sandia") THEN ""
               ELSE "KeyError: module")
    ELSE IF module \in SolarLibraryModules("cec") THEN ""
    ELSE "KeyError: module"

\* moduleCap: max capacity of a single module, in milliwatts
ModuleCap(module, sandiaGenerationModel) ==
    IF sandiaGenerationModel
    THEN ModuleParameters(module).Impo * ModuleParameters(module).Vmpo
    ELSE ModuleParameters(module).I_mp_ref * ModuleParameters(module).V_mp_ref

IdentifyModuleInverter ==
    /\ pc = "identify"
    /\ \E e \in {"KeyError: Could not load an inverter", "TypeError: str + Series"} :
         LET isStr == args.module \notin {"mapping", "mapping_noEg"}
             mErr  == ModuleLookupError(args.module, frame.sandiaGenerationModel)
             iErr  == InverterLookupError(args.inverter, e)
         IN  IF mErr # "" THEN Raise(mErr) /\ UNCHANGED frame
             ELSE IF iErr # "" THEN Raise(iErr) /\ UNCHANGED frame
             ELSE /\ frame' = [frame EXCEPT
                        !.module = args.module,
                        \* moduleCap is bound only in the isinstance(module, str) branch
                        !.moduleCapBound = isStr,
                        !.moduleCap = IF isStr
                                      THEN ModuleCap(args.module,
                                                     frame.sandiaGenerationModel)
                                      ELSE 0,
                        \* EgRef, dEgdT: of the mapping, or filled in for a
                        \* library module of the single-diode model
                        !.moduleEg = \/ args.module = "mapping"
                                     \/ (isStr /\ ~frame.sandiaGenerationModel),
                        !.inverter = args.inverter,
                        !.genericSystem =
                            [modules_per_string |-> args.modulesPerString,
                             strings_per_inverter |-> args.stringsPerInverter,
                             racking_model |-> args.rackingModel]]
                  /\ pc' = "inputs"
                  /\ err' = ""
    /\ UNCHANGED <<args, source, runs, log, history>>

\* azimuth=180 and elev=300 of the signature
Azimuth == 18000
Elev == 300

\* tilt given as a function of (location, elevation)
TiltFunction(l, e) == l.lat - (e \div 10)

\* ### Check the (potentially) uniquely defined inputs
CheckUniqueInputs ==
    /\ pc = "inputs"
    /\ LET locs == frame.locs
           \* elev as the caller passed it, where the series gives one
           elevArg == [i \in LocIdx |-> locs[i].elev]
       IN  IF args.tilt = "other"
           THEN Raise("ValueError: tilt directive not recognized")
                /\ UNCHANGED frame
           ELSE IF args.tilt = "function" /\ args.elev # "series"
           \* zip(locs, elev) with elev a number or None
           THEN Raise("TypeError: zip argument #2 must support iteration")
                /\ UNCHANGED frame
           ELSE IF args.elev = "none"
           THEN Raise("ValueError: elev cannot be None")
                /\ UNCHANGED frame
           ELSE /\ frame' = [frame EXCEPT
                      !.capacityNone = (args.totalSystemCapacity = "none"),
                      !.totalSystemCapacity =
                          [i \in LocIdx |->
                              CASE args.totalSystemCapacity = "none" -> 0
                                [] args.totalSystemCapacity = "number" -> 5
                                [] OTHER -> 3 + i],
                      !.azimuth = [i \in LocIdx |-> Azimuth],
                      !.tilt =
                          [i \in LocIdx |->
                              CASE args.tilt = "latitude" -> locs[i].lat
                                [] args.tilt = "half-latitude" -> locs[i].lat \div 2
                                [] args.tilt = "function" ->
                                       TiltFunction(locs[i], elevArg[i])
                                [] args.tilt = "number" -> 3000
                                [] OTHER -> 2000 + 500 * i],
                      !.elev =
                          [i \in LocIdx |->
                              IF args.elev = "number" THEN Elev ELSE elevArg[i]]]
                /\ pc' = "solpos"
                /\ err' = ""
    /\ UNCHANGED <<args, source, runs, log, history>>

\* ---------------------------------------------------------- solar position

\* Atmospheric refraction in hundredths of a degree, from the pressure (Pa)
\* and the air temperature (hundredths of a degree Celsius).
Refraction(pressure, temperature) ==
    (Quot(pressure, 100) * 283 * 100) \div (1010 * (273 + Quot(temperature, 100)))

\* pvlib.solarposition.spa_python at one timestamp: a function of the time,
\* the place and the atmosphere.
SpaPython(t, latitude, longitude, altitude, pressure, temperature) ==
    LET noon == CASE Phase(t) = 2 -> -3000
                  [] Phase(t) = 0 -> 1500
                  [] OTHER -> 6200 + 100 * (Month(t) % 3)
        geometric == noon - (latitude - 5000) - Quot(longitude - 600, 2)
                       + Quot(altitude, 100)
        apparent == IF geometric > -100
                    THEN geometric + Refraction(pressure, temperature)
                    ELSE geometric
    IN  [apparent_elevation |-> apparent,
         apparent_zenith |-> 9000 - apparent,
         azimuth |-> (CASE Phase(t) = 2 -> 1000
                        [] Phase(t) = 0 -> 10000
                        [] OTHER -> 18200) + Quot(longitude - 600, 2)]

\* solposKey of a location: lon and lat rounded to 0.1 degree, the elevation
\* rounded to 100 m (np.round, that is round half to even).
SolposKey(loc, elevation) ==
    <<RoundHalfEven(loc.lon, 10), RoundHalfEven(loc.lat, 10),
      RoundHalfEven(elevation, 100)>>

\* the entry of checkedSolPosValues for a key, a sequence of [key, value]
HasKey(checked, key) == \E k \in 1..Len(checked) : checked[k].key = key
Lookup(checked, key) ==
    checked[CHOOSE k \in 1..Len(checked) : checked[k].key = key].value

\* SpaSeries with the air of no location: spa_python's own default pressure
\* (101325 Pa) and temperature (12 degrees Celsius)
SpaSeriesStandardAir(key, i, pressure, air_temp) ==
    [t \in Times |-> SpaPython(t, key[2], key[1], key[3], 101325, 1200)]

\* The series spa_python returns for a key, computed with the pressure and
\* temperature series of location i.
SpaSeries(key, i, pressure, air_temp) ==
    [t \in Times |-> SpaPython(t, key[2], key[1], key[3],
                               pressure[<<t, i>>], air_temp[<<t, i>>])]

\* checkedSolPosValues[key] = value: a new entry, or the entry of the key
\* replaced
Put(checked, key, value) ==
    IF HasKey(checked, key)
    THEN [k \in 1..Len(checked) |->
             IF checked[k].key = key THEN [key |-> key, value |-> value]
             ELSE checked[k]]
    ELSE Append(checked, [key |-> key, value |-> value])

\* NeedsSpa with the cache never hit: every location calls spa_python
NeedsSpaAlways(checked, key) == TRUE

\* if not solposKey in checkedSolPosValues: whether the location calls
\* spa_python, given the keys checked so far
NeedsSpa(checked, key) == ~HasKey(checked, key)

\* for i, loc in enumerate(locs): the loop from location i on, with the state
\* st = [checked, _solpos, calls] of the iterations before.
RECURSIVE SolposLoop(_, _, _, _, _)
SolposLoop(i, st, locs, elev, weather) ==
    IF i > NumLocs THEN st
    ELSE LET key  == SolposKey(locs[i], elev[i])
             miss == NeedsSpa(st.checked, key)
             checked == IF miss
                        THEN Put(st.checked, key,
                                 SpaSeries(key, i, weather.pressure,
                                           weather.air_temp))
                        ELSE st.checked
             calls == IF miss
                      THEN Append(st.calls, [key |-> key, loc |-> i])
                      ELSE st.calls
         IN  SolposLoop(i + 1,
                        [checked |-> checked,
                         solpos |-> Append(st.solpos, Lookup(checked, key)),
                         calls |-> calls],
                        locs, elev, weather)

\* ### Begin simulations: get solar position
SolarPosition ==
    /\ pc = "solpos"
    /\ LET st == SolposLoop(1, [checked |-> <<>>, solpos |-> <<>>, calls |-> <<>>],
                            frame.locs, frame.elev,
                            [pressure |-> frame.pressure,
                             air_temp |-> frame.air_temp])
           Column(c) == [x \in Times \X LocIdx |-> st.solpos[x[2]][x[1]][c]]
       IN  /\ frame' = [frame EXCEPT
                  !.solpos = [apparent_zenith |-> Column("apparent_zenith"),
                              azimuth |-> Column("azimuth"),
                              apparent_elevation |-> Column("apparent_elevation")],
                  \* del _solpos, checkedSolPosValues
                  !.checkedSolPosValues = <<>>]
           /\ log' = [log EXCEPT !.spa = st.calls]
    /\ pc' = "frank"
    /\ UNCHANGED <<args, source, runs, err, history>>

\* ------------------------------------------------------------- irradiance

\* pvlib.irradiance.extraradiation(times): extraterrestrial irradiance, W/m2
ExtraRadiation(t) == 1367 + 15 * (Abs(Month(t) - 7) - 3)

\* 1/(1+exp(-(transmissivity-0.5)/0.03)) in thousandths, for ghi and
\* dni_extra in W/m2
Sigmoid(ghi, dni_extra) ==
    LET transmissivity == Quot(ghi * 1000, dni_extra)
        x == Quot((transmissivity - 500) * 100, 3)
        e == ExpNeg(Abs(x))
    IN  IF x >= 0 THEN 1000000000 \div (1000000 + e)
        ELSE (e * 1000) \div (1000000 + e)

\* cloudyFactors[months == m], in millionths
CloudyFactor(m) ==
    CASE m = 1 -> 777655 [] m = 2 -> 789716 [] m = 3 -> 817655
      [] m = 4 -> 840681 [] m = 5 -> 876181 [] m = 6 -> 909414
      [] m = 7 -> 935086 [] m = 8 -> 919168 [] m = 9 -> 912704
      [] m = 10 -> 877504 [] m = 11 -> 828316 [] OTHER -> 765142

\* clearSkyFactors by the apparent elevation e, in millionths
ClearSkyFactor(e) ==
    IF e >= 6000 THEN 1071526
    ELSE IF e >= 5000 THEN 1077925
    ELSE IF e >= 4000 THEN 1085685
    ELSE IF e >= 3000 THEN 1102295
    ELSE IF e >= 2000 THEN 1138418
    ELSE IF e >= 1000 THEN 1176129
    ELSE 1000000

\* totalCorrectionFactor = clearSkyFactors*sigmoid + cloudyFactors*(1-sigmoid),
\* in millionths
TotalCorrectionFactor(ghi, dni_extra, month, e) ==
    LET sigmoid == Sigmoid(ghi, dni_extra)
    IN  (ClearSkyFactor(e) * sigmoid) \div 1000
          + (CloudyFactor(month) * (1000 - sigmoid)) \div 1000

\* ghi *= totalCorrectionFactor
FrankCorrected(ghi, dni_extra, solpos) ==
    [x \in Times \X LocIdx |->
        Quot(ghi[x] * TotalCorrectionFactor(ghi[x], dni_extra[x[1]], Month(x[1]),
                                            solpos.apparent_elevation[x]),
             1000000)]

\* # DNI Extraterrestrial, # Apply Frank corrections when dealing with COSMO data?
\* ghi *= ... multiplies the table in place: when ghi is the caller's table
\* (a mapping source), the caller's table changes with it.
FrankCorrection ==
    /\ pc = "frank"
    /\ LET dni_extra == [t \in Times |-> ExtraRadiation(t)]
           ghi == IF args.frankCorrection
                  THEN FrankCorrected(frame.ghi, dni_extra, frame.solpos)
                  ELSE frame.ghi
       IN  /\ frame' = [frame EXCEPT !.dni_extra = dni_extra, !.ghi = ghi]
           /\ source' = IF frame.ghiShared
                        THEN [source EXCEPT !.data["ghi"] = ghi]
                        ELSE source
    /\ pc' = "decompose"
    /\ UNCHANGED <<args, runs, err, log, history>>

\* pvlib.irradiance.dirint for one cell: direct normal irradiance from the
\* global irradiance, the apparent zenith and the pressure.
DirInt(ghi, zenith, pressure) ==
    LET cosz == Cos1000(zenith)
    IN  IF cosz <= 0 \/ ghi <= 0 THEN 0
        ELSE Min(1000, Quot(Quot(ghi * 700, Max(cosz, 100)) * Quot(pressure, 100),
                            1013))

\* ClampNegative with the clamp left out
NoClamp(v) == v

\* dhi[dhi<0] = 0 for one cell
ClampNegative(v) == IF Lt(v, 0) THEN 0 ELSE v

\* dhi = ghi - dni*np.sin(np.radians(apparent_elevation)), then clamped
DerivedDhi(ghi, dni, apparent_elevation) ==
    [x \in Times \X LocIdx |->
        ClampNegative(Sub(ghi[x],
                          Div(Mul(dni[x], Sin1000(apparent_elevation[x])), 1000)))]

\* # Compute DHI or DNI
DecomposeIrradiance ==
    /\ pc = "decompose"
    /\ LET dni == IF frame.dniNone
                  THEN [x \in Times \X LocIdx |->
                           DirInt(frame.ghi[x], frame.solpos.apparent_zenith[x],
                                  frame.pressure[x])]
                  ELSE frame.dni
           dhi == IF frame.dhiNone
                  THEN DerivedDhi(frame.ghi, dni, frame.solpos.apparent_elevation)
                  ELSE frame.dhi
       IN  frame' = [frame EXCEPT !.dni = dni, !.dniNone = FALSE,
                                  !.dhi = dhi, !.dhiNone = FALSE]
    /\ pc' = "poa"
    /\ UNCHANGED <<args, source, runs, err, log, history>>

\* ---------------------------------------------------------- plane of array

\* trackingMaxAngle=60, in hundredths of a degree
TrackingMaxAngle == 6000

\* pvlib.tracking.singleaxis for one cell: the surface tilt and azimuth of
\* the tracker, undefined (NaN) while the sun is below the horizon.
SingleAxis(zenith, azimuth, axis_tilt, axis_azimuth, max_angle) ==
    IF zenith >= 9000
    THEN [surface_tilt |-> NaN, surface_azimuth |-> NaN]
    ELSE [surface_tilt |-> Min(Max(zenith - Quot(axis_tilt, 10), 0), max_angle),
          surface_azimuth |-> IF azimuth < axis_azimuth
                              THEN (axis_azimuth + 27000) % 36000
                              ELSE (axis_azimuth + 9000) % 36000]

\* pvlib.irradiance.aoi_projection: the cosine of the angle of incidence, in
\* thousandths
AoiProjection(tilt, azimuth, zenith, sun_azimuth) ==
    IF IsNaN(tilt) \/ IsNaN(azimuth) THEN NaN
    ELSE Quot(Cos1000(tilt) * Cos1000(zenith), 1000)
           + Quot(Quot(Sin1000(tilt) * Sin1000(zenith), 1000)
                    * Cos1000(sun_azimuth - azimuth + 36000), 1000)

\* pvlib.atmosphere.absoluteairmass(relativeairmass(zenith), pressure), in
\* thousandths; undefined beyond the horizon
AbsoluteAirmass(zenith, pressure) ==
    IF Cos1000(zenith) <= 0 THEN NaN
    ELSE Quot(Quot(1000000, Cos1000(zenith)) * Quot(pressure, 100), 1013)

\* pvlib.irradiance.total_irrad(..., model='haydavies') for one cell
TotalIrrad(tilt, azimuth, zenith, sun_azimuth, dni, ghi, dhi, albedo) ==
    LET proj    == AoiProjection(tilt, azimuth, zenith, sun_azimuth)
        beam    == Div(Mul(dni, proj), 1000)
        direct  == IF Lt(beam, 0) THEN 0 ELSE beam
        cost    == IF IsNaN(tilt) THEN NaN ELSE Cos1000(tilt)
        sky     == Div(Mul(dhi, Add(1000, cost)), 2000)
        ground  == Div(Mul(Div(Mul(ghi, albedo), 1000), Sub(1000, cost)), 2000)
        diffuse == Add(sky, ground)
    IN  [poa_global |-> Add(direct, diffuse), poa_direct |-> direct,
         poa_diffuse |-> diffuse]

\* # Get tilt and azimuths, # Airmass, # Angle of Incidence,
\* # Compute Total irradiation
PlaneOfArray ==
    /\ pc = "poa"
    /\ LET zen == frame.solpos.apparent_zenith
           saz == frame.solpos.azimuth
           track(x) == SingleAxis(zen[x], saz[x], frame.tilt[x[2]],
                                  frame.azimuth[x[2]], TrackingMaxAngle)
           tilt == [x \in Times \X LocIdx |->
                       IF frame.singleAxis THEN track(x).surface_tilt
                       ELSE frame.tilt[x[2]]]
           azimuth == [x \in Times \X LocIdx |->
                       IF frame.singleAxis THEN track(x).surface_azimuth
                       ELSE frame.azimuth[x[2]]]
           irr(x) == TotalIrrad(tilt[x], azimuth[x], zen[x], saz[x],
                                frame.dni[x], frame.ghi[x], frame.dhi[x],
                                frame.albedo[x])
       IN  frame' = [frame EXCEPT
                \* airmass and aoi are only computed for the SAPM model
                !.amAbs = IF frame.sandiaGenerationModel
                          THEN [x \in Times \X LocIdx |->
                                   AbsoluteAirmass(zen[x], frame.pressure[x])]
                          ELSE @,
                !.aoi = IF frame.sandiaGenerationModel
                        THEN [x \in Times \X LocIdx |->
                                 AoiProjection(tilt[x], azimuth[x], zen[x], saz[x])]
                        ELSE @,
                !.poa = [poa_global  |-> [x \in Times \X LocIdx |-> irr(x).poa_global],
                         poa_direct  |-> [x \in Times \X LocIdx |-> irr(x).poa_direct],
                         poa_diffuse |-> [x \in Times \X LocIdx |-> irr(x).poa_diffuse]],
                \* del dni, ghi, dhi, tilt, azimuth, dni_extra, solpos
                !.dni = ZeroTable, !.ghi = ZeroTable, !.dhi = ZeroTable,
                !.tilt = ZeroSeries, !.azimuth = ZeroSeries,
                !.ghiShared = FALSE,
                !.dni_extra = [t \in Times |-> 0],
                !.solpos = Frame0.solpos]
    /\ log' = [log EXCEPT !.poa_global = frame'.poa.poa_global]
    /\ pc' = "celltemp"
    /\ UNCHANGED <<args, source, runs, err, history>>

\* ------------------------------------------------------------- generation

\* temp_models of _sapm_celltemp: [a, b, deltaT], a and b in ten-thousandths;
\* a list given as the model is taken as it is
CustomRacking == <<-30000, -500, 2>>
TempModels(model) ==
    CASE model = "open_rack_cell_glassback"         -> <<-34700, -594, 3>>
      [] model = "roof_mount_cell_glassback"        -> <<-29800, -471, 1>>
      [] model = "open_rack_cell_polymerback"       -> <<-35600, -750, 3>>
      [] model = "insulated_back_polymerback"       -> <<-28100, -455, 0>>
      [] model = "open_rack_polymer_thinfilm_steel" -> <<-35800, -1130, 3>>
      [] model = "22x_concentrator_tracker"         -> <<-32300, -1300, 13>>
      [] OTHER -> CustomRacking

\* _sapm_celltemp for one cell, with the coefficients m = [a, b, deltaT]:
\*   temp_module = poa_global*np.exp(a + b*wind_speed) + temp_air
\*   temp_cell = temp_module + (poa_global / E0)*(deltaT),  E0 = 1000
SapmCelltempCell(poa_global, wind_speed, temp_air, m) ==
    LET e == ExpNeg(Quot(-(m[1] + m[2] * wind_speed), 10))
        temp_module == Add(Div(Mul(poa_global, e), 10000), temp_air)
    IN  Add(temp_module, Div(Mul(poa_global, m[3]), 10))

\* the model the call of _sapm_celltemp in simulatePVModule runs with: the
\* call passes no model, so the default of the parameter
CellTempRacking(rackingModel) == "open_rack_cell_glassback"

\* # Cell temp
CellTemp ==
    /\ pc = "celltemp"
    /\ IF frame.sandiaCellTemp
       THEN LET m == TempModels(CellTempRacking(args.rackingModel))
            IN  /\ frame' = [frame EXCEPT
                       !.cellTemp = [x \in Times \X LocIdx |->
                                        SapmCelltempCell(frame.poa.poa_global[x],
                                                         frame.windspeed[x],
                                                         frame.air_temp[x], m)],
                       \* del air_temp, windspeed
                       !.air_temp = ZeroTable, !.windspeed = ZeroTable]
                /\ log' = [log EXCEPT !.celltemp = m]
                /\ pc' = "dc"
                /\ err' = ""
       ELSE /\ Raise("ResError: NOCT celltemp module not yet implemented :(")
            /\ UNCHANGED <<frame, log>>
    /\ UNCHANGED <<args, source, runs, history>>

\* pvlib.pvsystem.calcparams_desoto and singlediode for one cell with
\* poa_global > 0: the power (milliwatts) and the voltage (millivolts) at the
\* maximum power point
SingleDiode(poa_global, temp_cell, module) ==
    LET m == ModuleParameters(module)
        cap == m.I_mp_ref * m.V_mp_ref
        k == 1000 - Quot(35 * (temp_cell - 2500), 1000)
    IN  [p_mp |-> Quot(Quot(cap * poa_global, 1000) * Max(k, 0), 1000),
         v_mp |-> Quot(m.V_mp_ref * 100 * Max(1000 - Quot(3 * (temp_cell - 2500), 100), 0)
                       , 1000)]

\* sel = (poa["poa_global"]>0).values
Sel(poa_global) == Gt(poa_global, 0)

\* rawDCGeneration[k]: an empty table, filled where sel
RawDC(k, poa_global, cellTemp, module) ==
    [x \in Times \X LocIdx |->
        IF Sel(poa_global[x])
        THEN SingleDiode(poa_global[x], cellTemp[x], module)[k]
        ELSE NaN]

\* ## Do DC Generation calculation
DCGeneration ==
    /\ pc = "dc"
    /\ IF frame.sandiaGenerationModel
       \* sapm_effective_irradiance is called without the module, and the
       \* argument moduleTemp['temp_cell'] names a variable that is never bound
       THEN /\ \E e \in {"TypeError: sapm_effective_irradiance() missing module",
                         "NameError: name 'moduleTemp' is not defined"} : Raise(e)
            /\ UNCHANGED <<frame, log>>
       ELSE IF ~frame.moduleEg
       THEN /\ Raise("AttributeError: EgRef")
            /\ UNCHANGED <<frame, log>>
       ELSE /\ frame' = [frame EXCEPT
                   !.rawDCGeneration =
                       [p_mp |-> RawDC("p_mp", frame.poa.poa_global,
                                       frame.cellTemp, frame.module),
                        v_mp |-> RawDC("v_mp", frame.poa.poa_global,
                                       frame.cellTemp, frame.module)],
                   \* del poa, cellTemp
                   !.poa = Frame0.poa, !.cellTemp = ZeroTable]
            /\ log' = [log EXCEPT !.p_mp = frame'.rawDCGeneration.p_mp]
            /\ pc' = "inverter"
            /\ err' = ""
    /\ UNCHANGED <<args, source, runs, history>>

\* HasInverter with the test left out: the inverter stage always runs
HasInverterAlways(inverter) == TRUE

\* whether the inverter stage runs: if not inverter is None
HasInverter(inverter) == inverter # "none"

\* ## Simulate inverter interation
InverterStage ==
    /\ pc = "inverter"
    /\ IF HasInverter(frame.inverter)
       \* both branches read system.modules_per_string while evaluating the
       \* arguments of the inverter model; no variable system is ever bound
       THEN /\ Raise("NameError: name 'system' is not defined")
            /\ UNCHANGED frame
       ELSE /\ frame' = [frame EXCEPT
                   !.generation = frame.rawDCGeneration.p_mp,
                   \* del rawDCGeneration
                   !.rawDCGeneration = Frame0.rawDCGeneration]
            /\ pc' = "finalize"
            /\ err' = ""
    /\ UNCHANGED <<args, source, runs, log, history>>

\* generation *= (1-loss), loss in hundredths
ApplyLoss(generation, loss) == Div(Mul(generation, 100 - loss), 100)

\* generation/moduleCap, in thousandths of the rated capacity
CapacityFactor(generation, moduleCap) == Div(Mul(generation, 1000), moduleCap)

\* FillNa with the fill left out
NoFillNa(v) == v

\* output.fillna(0) for one cell
FillNa(v) == IF IsNaN(v) THEN 0 ELSE v

\* generation *= (1-loss), the normalisation by moduleCap, return output.fillna(0)
Finalize ==
    /\ pc = "finalize"
    /\ IF ~frame.moduleCapBound
       THEN /\ Raise("NameError: name 'moduleCap' is not defined")
            /\ UNCHANGED frame
       ELSE LET generation == [x \in Times \X LocIdx |->
                                  ApplyLoss(frame.generation[x], args.loss)]
                output == [x \in Times \X LocIdx |->
                              IF frame.capacityNone
                              THEN CapacityFactor(generation[x], frame.moduleCap)
                              ELSE Mul(CapacityFactor(generation[x], frame.moduleCap),
                                       frame.totalSystemCapacity[x[2]])]
            IN  /\ frame' = [frame EXCEPT
                       !.generation = generation,
                       !.output = [x \in Times \X LocIdx |-> FillNa(output[x])]]
                /\ pc' = "done"
                /\ err' = ""
    /\ UNCHANGED <<args, source, runs, log, history>>

\* The call is over: the caller has its result (the returned table or the
\* exception) and its source back.
Return ==
    /\ pc \in {"done", "raised"}
    /\ history' = [history EXCEPT
           !.calls = Append(@, [result |-> IF pc = "done" THEN "returned"
                                           ELSE "raised",
                                err |-> err,
                                output |-> frame.output,
                                \* the caller's tables are as they were
                                pure |-> source.data = history.before])]
    /\ pc' = "idle"
    /\ UNCHANGED <<args, source, runs, err, frame, log>>

Next ==
    \/ Call
    \/ CheckInputs
    \/ CollectWeather
    \/ IdentifyModuleInverter
    \/ CheckUniqueInputs
    \/ SolarPosition
    \/ FrankCorrection
    \/ DecomposeIrradiance
    \/ PlaneOfArray
    \/ CellTemp
    \/ DCGeneration
    \/ InverterStage
    \/ Finalize
    \/ Return

Spec == Init /\ [][Next]_vars

\* ================================================================= claims

Cells == Times \X LocIdx
Calls == 1..Len(history.calls)

\* ---- C1
ValidationErrors ==
    {"ValueError: cellTempModel parameter not understood",
     "ValueError: generationModel parameter not understood",
     "ValueError: tracking parameter not understood",
     "ValueError: tilt directive not recognized",
     "ValueError: elev cannot be None",
     "ResError: NOCT celltemp module not yet implemented :("}

\* C1: a call that ends with a configuration/validation error has read no
\* weather before it (no source.get, no source[...]).
C1_ValidationBeforeWeather ==
    (pc = "raised" /\ err \in ValidationErrors) => log.reads = 0

\* ---- C2
\* C2: all finished calls (the same inputs each time) ended the same way with
\* the same output table, and each left the caller's weather tables as they
\* were.
C2_RerunIdenticalAndPure ==
    /\ \A i \in Calls : history.calls[i].pure
    /\ \A i, j \in Calls :
          /\ history.calls[i].result = history.calls[j].result
          /\ history.calls[i].output = history.calls[j].output

\* ---- C3
\* the solar position tables are assigned and not yet deleted
SolposAssigned == pc \in {"frank", "decompose", "poa"}

SameSolpos(i, j) ==
    \A t \in Times :
       /\ frame.solpos.apparent_zenith[<<t, i>>] = frame.solpos.apparent_zenith[<<t, j>>]
       /\ frame.solpos.azimuth[<<t, i>>] = frame.solpos.azimuth[<<t, j>>]
       /\ frame.solpos.apparent_elevation[<<t, i>>]
            = frame.solpos.apparent_elevation[<<t, j>>]

\* less than 0.05 degrees apart in longitude and in latitude, less than 50 m
\* in elevation
Nearby(i, j) ==
    /\ Abs(frame.locs[i].lon - frame.locs[j].lon) < 5
    /\ Abs(frame.locs[i].lat - frame.locs[j].lat) < 5
    /\ Abs(frame.elev[i] - frame.elev[j]) < 50

SameKey(i, j) ==
    SolposKey(frame.locs[i], frame.elev[i]) = SolposKey(frame.locs[j], frame.elev[j])

\* C3 (as claimed): two locations of a call less than 0.05 degrees and 50 m
\* apart are assigned identical solar position series.
C3_NearbySameSolpos ==
    SolposAssigned => \A i, j \in LocIdx : Nearby(i, j) => SameSolpos(i, j)

\* C3 (amended): two locations of a call whose longitude and latitude round
\* to the same 0.1 degree and whose elevation rounds to the same 100 m are
\* assigned identical solar position series.
C3_SameKeySameSolpos ==
    SolposAssigned => \A i, j \in LocIdx : SameKey(i, j) => SameSolpos(i, j)

\* two different locations with one key and different air above them
C3_Witness ==
    /\ SolposAssigned
    /\ \E i, j \in LocIdx :
          /\ frame.locs[i] # frame.locs[j]
          /\ SameKey(i, j)
          /\ \E t \in Times : frame.pressure[<<t, i>>] # frame.pressure[<<t, j>>]
          /\ \E t \in Times : frame.solpos.apparent_elevation[<<t, i>>] > 0

\* ---- C4
\* C4 (as claimed): the dhi table handed to the plane-of-array projection has
\* no negative cell.
C4_DhiNonNegative ==
    pc = "poa" => \A x \in Cells : frame.dhi[x] >= 0

\* C4 (amended): when the source holds no dhi, so that dhi is derived as
\* ghi - dni*sin(elevation), the dhi table handed to the plane-of-array
\* projection has no negative cell.
C4_DerivedDhiNonNegative ==
    (pc = "poa" /\ "dhi" \notin source.keys)
        => \A x \in Cells : ~IsNaN(frame.dhi[x]) /\ frame.dhi[x] >= 0

\* a derived cell whose difference is negative and which is handed on as 0
C4_Witness ==
    /\ pc = "poa"
    /\ "dhi" \notin source.keys
    /\ \E x \in Cells :
          /\ frame.ghi[x] * 1000
               < frame.dni[x] * Sin1000(frame.solpos.apparent_elevation[x]) - 1000
          /\ frame.dhi[x] = 0

\* ---- C5
\* C5: a call with an inverter does not fail in the inverter stage.
C5_InverterStageCompletes ==
    (pc = "raised" /\ args.inverter # "none")
        => err # "NameError: name 'system' is not defined"

\* ---- C6
\* the output of a cell from the DC maximum power p (milliwatts): p times
\* (1 - loss), over the rated capacity, times the system capacity if given
DCNormalized(p, i) ==
    IF IsNaN(p) THEN 0
    ELSE LET cf == (((p * (100 - args.loss)) \div 100) * 1000) \div frame.moduleCap
         IN  IF args.totalSystemCapacity = "none" THEN cf
             ELSE cf * frame.totalSystemCapacity[i]

\* C6: in a call without inverter no inverter model is invoked, the inverter
\* stage raises nothing, and the returned output is the DC maximum power
\* times (1 - loss) over the rated capacity (times the system capacity).
C6_NoInverterSkipsAC ==
    args.inverter = "none" =>
        /\ log.inverterCalls = 0
        /\ err # "NameError: name 'system' is not defined"
        /\ pc = "done" =>
              \A x \in Cells : frame.output[x] = DCNormalized(log.p_mp[x], x[2])

\* a returned call without inverter, with the other inverter model, a loss
\* and strings of two modules, and power in some cell
C6_Witness ==
    /\ pc = "done"
    /\ args.inverter = "none"
    /\ \/ args.inverterModel = "driesse" /\ args.loss = 10
       \/ args.modulesPerString = 2 /\ args.stringsPerInverter = 2
    /\ \E x \in Cells : frame.output[x] > 0

\* ---- C7
\* C7: the returned table has no missing value, and is 0 in every cell whose
\* poa_global is not greater than 0.
C7_DenseOutput ==
    pc = "done" =>
        \A x \in Cells :
            /\ ~IsNaN(frame.output[x])
            /\ (args.generationModel = "single-diode" /\ ~Gt(log.poa_global[x], 0))
                  => frame.output[x] = 0

\* a returned table with a cell without irradiance and a cell with power
C7_Witness ==
    /\ pc = "done"
    /\ \E x \in Cells : ~Gt(log.poa_global[x], 0) /\ IsNaN(log.p_mp[x])
    /\ \E x \in Cells : frame.output[x] > 0

\* ---- C8
\* C8: the call reaches finalization with the rated capacity of the module
\* defined, and (single-diode model) reaches the diode equation with the
\* band-gap parameters defined, whichever way the module was given.
C8_RatedCapacityDefined ==
    /\ pc = "finalize" => frame.moduleCapBound
    /\ (pc = "dc" /\ ~frame.sandiaGenerationModel) => frame.moduleEg

\* ---- C9
\* C9: the coefficients the cell temperature is computed with are those of
\* the rackingModel the caller gave.
C9_RackingCoefficients ==
    log.celltemp # <<>> => log.celltemp = TempModels(args.rackingModel)

\* ---- C10
\* C10: a call with generationModel "sapm" and a module of the Sandia
\* library does not fail in the DC generation stage.
C10_SapmCompletes ==
    (pc = "raised" /\ args.generationModel = "sapm" /\ args.module = "sandia_id")
        => err \notin {"TypeError: sapm_effective_irradiance() missing module",
                       "NameError: name 'moduleTemp' is not defined"}

\* ---- C11
\* the weather of the current call has been collected from a gridded source
GriddedCollected == source.kind = "ncsource" /\ frame.locs # <<>>

\* the variables of the get calls of the current call
GetVars == {log.get[k].var : k \in 1..Len(log.get)}

\* C11: in a call with a gridded source loc2Index is called exactly once,
\* every get of the call is passed the result of that one call, the location
\* set of the call and the interpolation the caller gave, and the variables
\* extracted, each once, are ghi, windspeed, pressure, air_temp and those of
\* dhi, dni, albedo that the source's data holds; no get is made before the
\* weather stage.
C11_IndexOnceAndReused ==
    /\ GriddedCollected =>
          /\ log.loc2Index = 1
          /\ \A k \in 1..Len(log.get) :
                /\ log.get[k].indicies = 1
                /\ log.get[k].locations = frame.locs
                /\ log.get[k].interpolation = args.interpolation
          /\ GetVars = {"ghi", "windspeed", "pressure", "air_temp"}
                         \cup ({"dhi", "dni", "albedo"} \cap source.keys)
          /\ Len(log.get) = Cardinality(GetVars)
    /\ frame.locs = <<>> => (log.get = <<>> /\ log.loc2Index = 0)

\* a second call with a gridded source that holds an optional variable or
\* lacks one, after its extraction
C11_Witness ==
    /\ GriddedCollected
    /\ runs = 2
    /\ Len(log.get) >= 4
    /\ \/ "dhi" \in source.keys
       \/ "dni" \notin source.keys
       \/ args.interpolation = "near"

\* ---- C12
\* the tilt the option stands for at location i of the call
ExpectedTilt(i) ==
    CASE args.tilt = "latitude"      -> frame.locs[i].lat
      [] args.tilt = "half-latitude" -> frame.locs[i].lat \div 2
      [] args.tilt = "function"      -> TiltFunction(frame.locs[i], frame.elev[i])
      [] args.tilt = "number"        -> 3000
      [] OTHER                       -> 2000 + 500 * i

\* C12: for every accepted form of tilt (a number, a sequence, "latitude",
\* "half-latitude", a function) and every accepted form of elev, the input
\* stage raises nothing and resolves each location's tilt to the value the
\* form stands for, the function form to f(location, elevation of the
\* location).
C12_TiltResolved ==
    (args.tilt # "other" /\ args.elev # "none") =>
        /\ pc = "raised" => err # "TypeError: zip argument #2 must support iteration"
        /\ pc = "solpos" => \A i \in LocIdx : frame.tilt[i] = ExpectedTilt(i)

\* ---- C13
\* the exceptions the lookup of an inverter identifier can end with
InverterLookupErrors ==
    {"KeyError: inverter", "KeyError: Could not load an inverter",
     "TypeError: str + Series"}

\* C13: a call whose inverter is an identifier of the CEC group or of the
\* Sandia group does not end with a lookup error, and once the lookup is done
\* the inverter of the call is the parameter set of that identifier.
C13_InverterResolved ==
    args.inverter \in (SolarLibraryInverters("cec") \cup SolarLibraryInverters("sandia"))
        => /\ pc = "raised" => err \notin InverterLookupErrors
           /\ pc = "inputs" => frame.inverter = args.inverter

\* ---- C14
\* the first location, in LocationSet order, with the key of location i
FirstWithKey(i) ==
    CHOOSE f \in LocIdx : SameKey(f, i) /\ \A g \in LocIdx : SameKey(g, i) => f <= g

\* what spa_python gives at time t for the key of location i with the
\* pressure and air temperature of location f
SpaFor(t, i, f) ==
    LET key == SolposKey(frame.locs[i], frame.elev[i])
    IN  SpaPython(t, key[2], key[1], key[3],
                  frame.pressure[<<t, f>>], frame.air_temp[<<t, f>>])

\* C14: in every call spa_python is called exactly once for each distinct
\* key (lon and lat rounded to 0.1 degree, elevation to 100 m) of the call's
\* locations, for the first location with the key; every location is
\* assigned the result computed for its key with the pressure and air
\* temperature of that first location; the key -> result mapping is empty
\* when the call starts and is deleted when the solar position stage ends.
C14_SpaOncePerKey ==
    /\ SolposAssigned =>
          /\ Len(log.spa) = Cardinality({SolposKey(frame.locs[i], frame.elev[i]) :
                                            i \in LocIdx})
          /\ \A i \in LocIdx :
                \E k \in 1..Len(log.spa) :
                    /\ log.spa[k].key = SolposKey(frame.locs[i], frame.elev[i])
                    /\ log.spa[k].loc = FirstWithKey(i)
          /\ \A i \in LocIdx : \A t \in Times :
                LET r == SpaFor(t, i, FirstWithKey(i))
                IN  /\ frame.solpos.apparent_zenith[<<t, i>>] = r.apparent_zenith
                    /\ frame.solpos.azimuth[<<t, i>>] = r.azimuth
                    /\ frame.solpos.apparent_elevation[<<t, i>>]
                         = r.apparent_elevation
    /\ pc \in {"check", "weather", "identify", "inputs", "solpos"} => log.spa = <<>>
    /\ frame.checkedSolPosValues = <<>>

\* a second call with two locations of one key and different air, where the
\* air of the second location would have given another result
C14_Witness ==
    /\ SolposAssigned
    /\ runs = 2
    /\ Len(log.spa) < NumLocs
    /\ \E i \in LocIdx : \E t \in Times :
          /\ FirstWithKey(i) # i
          /\ SpaFor(t, i, i) # SpaFor(t, i, FirstWithKey(i))

====
